---- MODULE Spec2Model ----
(***************************************************************************)
(* A model of chflux/common.py: chamber_lookup_table_func (chamber         *)
(* schedule resolution), dixon_test (Dixon's Q test) and optimize_timelag  *)
(* (the dispatch between the bounded and the unbounded minimizer, and its   *)
(* cost function _timelag_resid_func).                                     *)
(*                                                                         *)
(* Numbers.  Python floats are modelled exactly:                           *)
(*   - a day-of-year value is held as an integer count of seconds          *)
(*     (1/86400 day), so that 12 h is 43200 and doy 1.0 is 86400;          *)
(*   - the quotient of a division is held as a reduced fraction            *)
(*     <<numerator, denominator>>;                                         *)
(*   - a float that may be non-finite is a record [fin, val].              *)
(* One specification per function: SpecLookup, SpecDixon, SpecLag,         *)
(* SpecCost.                                                               *)
(***************************************************************************)
EXTENDS Integers, Sequences, FiniteSets, TLC

VARIABLES
    called,                 \* the function whose call produced this state
    warnings,               \* warnings.warn messages emitted by that call
    raised,                 \* the exception that call propagated, or NoError
    chamber_config,         \* chamber_lookup_table_func: the schedule definitions
    doy,                    \* chamber_lookup_table_func: the queried day
    chamber_lookup_table,   \* chamber_lookup_table_func: the returned value
    x, left, right, q_conf, \* dixon_test: the arguments
    outliers,               \* dixon_test: the returned value
    dixon_locals,           \* dixon_test: size, table index and divisors used
    bounds, guess,          \* optimize_timelag: the arguments
    time, conc,             \* optimize_timelag: the trace
    args,                   \* optimize_timelag: the arguments passed as args
    minimizer,              \* optimize_timelag: the scipy call that was made
    timelag_results,        \* optimize_timelag: what that call returned
    lag_return,             \* optimize_timelag: the returned value
    t_lag,                  \* _timelag_resid_func: the candidate lag
    MSR                     \* _timelag_resid_func: the returned cost

vars == <<called, warnings, raised, chamber_config, doy, chamber_lookup_table,
          x, left, right, q_conf, outliers, dixon_locals,
          bounds, guess, time, conc, args, minimizer, timelag_results,
          lag_return, t_lag, MSR>>

lookupVars == <<chamber_config, doy, chamber_lookup_table>>
dixonVars == <<x, left, right, q_conf, outliers, dixon_locals>>
traceVars == <<time, conc, args>>
costVars == <<t_lag, MSR>>
lagVars == <<bounds, guess, traceVars, minimizer, timelag_results, lag_return,
             costVars>>

\* ---------------------------------------------------------------- bounds

MaxSched == 2       \* schedule definitions in chamber_config
MaxDay == 2         \* days of the year the schedules and queries span
MaxCore == 2        \* free values of a dixon_test sample
MaxVal == 3         \* largest value of a dixon_test sample
MaxNonFinite == 1   \* non-finite values put in front of a dixon_test sample
MaxExtra == 2       \* sample sizes tried beyond the largest table size
MaxLag == 2         \* largest finite value of a bound or a guess
MaxTime == 4        \* points of a trace

\* ---------------------------------------------------------------- generic

NoError == [type |-> "", msg |-> ""]
ValueError(m) == [type |-> "ValueError", msg |-> m]

NotCalled == [tag |-> "NotCalled"]
None == [tag |-> "None"]
\* the value of MSR while _timelag_resid_func has not returned
NotEvaluated == "not evaluated"

Abs(n) == IF n < 0 THEN -n ELSE n

RECURSIVE GCD(_, _)
GCD(a, b) == IF b = 0 THEN a ELSE GCD(b, a % b)

\* n / d for d > 0, exactly: the reduced fraction <<numerator, denominator>>
TrueDiv(n, d) ==
    LET g == GCD(Abs(n), d) IN <<n \div g, d \div g>>

\* ------------------------------------------- chamber_lookup_table_func

HoursPerDay == 24
MinutesPerDay == 1440
SecondsPerDay == 86400

\* a schedule_start / schedule_end value of the configuration: a str that
\* pd.Timestamp parses to (dayofyear, hour, minute, second), or a number
StrTime(d, h, m, s) ==
    [is_str |-> TRUE, num |-> 0, dayofyear |-> d, hour |-> h,
     minute |-> m, second |-> s]
NumTime(v) ==
    [is_str |-> FALSE, num |-> v, dayofyear |-> 0, hour |-> 0,
     minute |-> 0, second |-> 0]

\* sch_start_doy / sch_end_doy of one boundary value
SchDoy(t) ==
    IF t.is_str
    THEN (t.dayofyear - 1) * SecondsPerDay
         + t.hour * (SecondsPerDay \div HoursPerDay)
         + t.minute * (SecondsPerDay \div MinutesPerDay)
         + t.second * (SecondsPerDay \div SecondsPerDay)
    ELSE t.num

\* (mutation of FirstMatchFrom: the scan keeps the last match, no break)
RECURSIVE FirstMatchFrom_NoBreak(_, _, _)
FirstMatchFrom_NoBreak(config, d, i) ==
    IF i > Len(config) THEN 0
    ELSE LET later == FirstMatchFrom_NoBreak(config, d, i + 1) IN
         IF later # 0 THEN later
         ELSE IF SchDoy(config[i].schedule_start) <= d
                 /\ d < SchDoy(config[i].schedule_end)
              THEN i
              ELSE 0

\* the for loop with break: the index of the first definition, in iteration
\* order, whose interval holds doy; 0 when the loop runs to its else clause
RECURSIVE FirstMatchFrom(_, _, _)
FirstMatchFrom(config, d, i) ==
    IF i > Len(config) THEN 0
    ELSE IF SchDoy(config[i].schedule_start) <= d
            /\ d < SchDoy(config[i].schedule_end)
         THEN i
         ELSE FirstMatchFrom(config, d, i + 1)

FirstMatch(config, d) == FirstMatchFrom(config, d, 1)

UnitSeconds == {"second", "sec", "s"}
UnitMinutes == {"minute", "min", "m"}
UnitHours == {"hour", "hr", "h"}

\* (mutation of time_unit_conversion_factor: minutes per hour, not per day)
time_unit_conversion_factor_PerHour(unit_of_time) ==
    IF unit_of_time \in UnitSeconds THEN 60 * 60 * 24
    ELSE IF unit_of_time \in UnitMinutes THEN 60
    ELSE IF unit_of_time \in UnitHours THEN 24
    ELSE 1

time_unit_conversion_factor(unit_of_time) ==
    IF unit_of_time \in UnitSeconds THEN 60 * 60 * 24
    ELSE IF unit_of_time \in UnitMinutes THEN 60 * 24
    ELSE IF unit_of_time \in UnitHours THEN 24
    ELSE 1

ScalarKeys ==
    {"schedule_start", "schedule_end", "n_ch", "smpl_cycle_len",
     "n_cycle_per_day", "unit_of_time"}

DfKeys ==
    {"ch_no", "A_ch", "A_ch_std", "V_ch", "ch_label", "is_leaf_chamber",
     "flowmeter_no", "TC_no", "PAR_no", "ch_start", "ch_o_b", "ch_cls",
     "ch_o_a", "ch_end", "ch_atm_a", "optimize_timelag", "timelag_nominal",
     "timelag_upper_limit", "timelag_lower_limit"}

\* the columns of df the in-place division is applied to
DividedKeys ==
    {"ch_start", "ch_o_b", "ch_cls", "ch_o_a", "ch_end", "ch_atm_a",
     "timelag_nominal", "timelag_upper_limit", "timelag_lower_limit"}

\* one column of df after `df[[...]] /= factor`
DivideColumn(col, factor) ==
    [i \in DOMAIN col |-> TrueDiv(col[i], factor)]

\* df: the copy of the per-chamber columns, the time columns divided
BuildDf(current_schedule, factor) ==
    [key \in DfKeys |->
        IF key \in DividedKeys
        THEN DivideColumn(current_schedule[key], factor)
        ELSE current_schedule[key]]

\* the namedtuple returned for the matched schedule
ChamberLookupTableResult(current_schedule) ==
    LET factor == time_unit_conversion_factor(current_schedule.unit_of_time) IN
    [tag |-> "ChamberLookupTableResult",
     schedule_start |-> current_schedule.schedule_start,
     schedule_end |-> current_schedule.schedule_end,
     n_ch |-> current_schedule.n_ch,
     smpl_cycle_len |-> TrueDiv(current_schedule.smpl_cycle_len, factor),
     n_cycle_per_day |-> current_schedule.n_cycle_per_day,
     unit_of_time |-> current_schedule.unit_of_time,
     df |-> BuildDf(current_schedule, factor)]

MsgNoSchedule == "No valid chamber schedule found on the day"

\* (mutation of chamber_lookup_table_func: the loop variable is used after
\* a loop that found nothing, so the last definition scanned is returned)
chamber_lookup_table_func_Fallthrough(d, config) ==
    LET m == FirstMatch(config, d) IN
    IF m = 0 /\ Len(config) = 0
    THEN [ret |-> None, warned |-> <<MsgNoSchedule>>]
    ELSE IF m = 0
    THEN [ret |-> ChamberLookupTableResult(config[Len(config)]),
          warned |-> <<MsgNoSchedule>>]
    ELSE [ret |-> ChamberLookupTableResult(config[m]), warned |-> <<>>]

\* the whole function: the returned value and the warnings emitted
chamber_lookup_table_func(d, config) ==
    LET m == FirstMatch(config, d) IN
    IF m = 0
    THEN [ret |-> None, warned |-> <<MsgNoSchedule>>]
    ELSE [ret |-> ChamberLookupTableResult(config[m]), warned |-> <<>>]

\* ---- the inputs

Units == <<"second", "min", "hr", "day", "fortnight">>

\* the payload of the k-th definition of a configuration whose first unit
\* is Units[u]: every value differs from one definition to the next
Payload(k, u) ==
    [n_ch |-> 2,
     smpl_cycle_len |-> 90 * k,
     n_cycle_per_day |-> 4 + k,
     unit_of_time |-> Units[((u + k - 2) % Len(Units)) + 1],
     ch_no |-> <<1, 2>>,
     A_ch |-> <<3 * k, 5 * k>>,
     A_ch_std |-> <<1, k>>,
     V_ch |-> <<7 * k, 11>>,
     ch_label |-> <<"soil", "leaf">>,
     is_leaf_chamber |-> <<FALSE, TRUE>>,
     flowmeter_no |-> <<k, k + 1>>,
     TC_no |-> <<2, 1>>,
     PAR_no |-> <<1, 1>>,
     ch_start |-> <<0, 30 * k>>,
     ch_o_b |-> <<2 * k, 2>>,
     ch_cls |-> <<8, 8 * k>>,
     ch_o_a |-> <<3, 3 + k>>,
     ch_end |-> <<30 * k, 60 * k>>,
     ch_atm_a |-> <<k, 1>>,
     optimize_timelag |-> <<TRUE, FALSE>>,
     timelag_nominal |-> <<5, 5 * k>>,
     timelag_upper_limit |-> <<9 * k, 12>>,
     timelag_lower_limit |-> <<-k, 0>>]

HalfDay == SecondsPerDay \div 2

\* numeric boundaries: whole days, the empty interval included
NumIntervals ==
    {<<NumTime(p[1] * SecondsPerDay), NumTime(p[2] * SecondsPerDay)>> :
        p \in {q \in (0..MaxDay) \X (0..MaxDay) : q[1] <= q[2]}}

\* str boundaries: from 12:30:15 of one day to 00:00:00 of a later day
StrStart(d) == StrTime(d, 12, 30, 15)
StrEnd(d) == StrTime(d, 0, 0, 0)

StrIntervals ==
    {<<StrStart(p[1]), StrEnd(p[2])>> :
        p \in {q \in (1..MaxDay) \X (1..MaxDay) : q[1] < q[2]}}

Intervals == NumIntervals \cup StrIntervals

Definition(k, u, iv) ==
    [key \in ScalarKeys \cup DfKeys |->
        IF key = "schedule_start" THEN iv[1]
        ELSE IF key = "schedule_end" THEN iv[2]
        ELSE Payload(k, u)[key]]

\* the configurations of at most MaxSched definitions
IsConfig(config) ==
    \E n \in 0..MaxSched :
        \E ivs \in [1..n -> Intervals], u \in 1..(IF n = 0 THEN 1 ELSE Len(Units)) :
            config = [k \in 1..n |-> Definition(k, u, ivs[k])]

\* queried days: every half day from 0 to past the last schedule, and the
\* instants at which the str intervals start
Doys ==
    {h * HalfDay : h \in 0..(2 * MaxDay + 1)}
        \cup {SchDoy(StrStart(d)) : d \in 1..MaxDay}

\* ---- the specification

InitLookup ==
    /\ called = "init"
    /\ warnings = <<>>
    /\ raised = NoError
    /\ IsConfig(chamber_config)
    /\ doy = 0
    /\ chamber_lookup_table = NotCalled
    /\ x = <<>> /\ left = TRUE /\ right = TRUE /\ q_conf = "q95"
    /\ outliers = NotCalled /\ dixon_locals = NotCalled
    /\ bounds = None /\ guess = None
    /\ time = <<>> /\ conc = <<>> /\ args = NotCalled
    /\ minimizer = NotCalled /\ timelag_results = NotCalled
    /\ lag_return = NotCalled
    /\ t_lag = 0 /\ MSR = NotEvaluated

\* (mutation of ConfigAfterCall: the day of year parsed from a str boundary
\* is stored back into the definition that was scanned)
ConfigAfterCall_StoresDoy(d, config) ==
    LET m == FirstMatch(config, d)
        last == IF m = 0 THEN Len(config) ELSE m
    IN  [i \in 1..Len(config) |->
            IF i <= last
            THEN [config[i] EXCEPT
                     !.schedule_start = NumTime(SchDoy(@)),
                     !.schedule_end = NumTime(SchDoy(@))]
            ELSE config[i]]

\* chamber_config as the call leaves it: the definitions are only read
\* (current_schedule[key] is copied into a new dict and a new DataFrame,
\* and both divisions rebind or write those copies)
ConfigAfterCall(d, config) == config

\* a call chamber_lookup_table_func(d, chamber_config)
CallLookup(d) ==
    LET r == chamber_lookup_table_func(d, chamber_config) IN
    /\ called' = "chamber_lookup_table_func"
    /\ doy' = d
    /\ chamber_lookup_table' = r.ret
    /\ warnings' = r.warned
    /\ raised' = NoError
    /\ chamber_config' = ConfigAfterCall(d, chamber_config)
    /\ UNCHANGED <<dixonVars, lagVars>>

NextLookup == \E d \in Doys : CallLookup(d)

SpecLookup == InitLookup /\ [][NextLookup]_vars


\* ------------------------------------------------------------ dixon_test

\* a float of the sample: finite with an integer value, or nan / inf
Float(v) == [fin |-> TRUE, val |-> v]
NaN == [fin |-> FALSE, val |-> 0]
Inf == [fin |-> FALSE, val |-> 1]

\* the critical Q values, in thousandths
q_dicts(conf) ==
    CASE conf = "q90" ->
           <<941, 765, 642, 560, 507, 468, 437,
             412, 392, 376, 361, 349, 338, 329,
             320, 313, 306, 300, 295, 290, 285,
             281, 277, 273, 269, 266, 263, 260>>
      [] conf = "q95" ->
           <<970, 829, 710, 625, 568, 526, 493,
             466, 444, 426, 410, 396, 384, 374,
             365, 356, 349, 342, 337, 331, 326,
             321, 317, 312, 308, 305, 301, 290>>
      [] conf = "q99" ->
           <<994, 926, 821, 740, 680, 634, 598,
             568, 542, 522, 503, 488, 475, 463,
             452, 442, 433, 425, 418, 411, 404,
             399, 393, 388, 384, 380, 376, 372>>

QConfs == {"q90", "q95", "q99"}

\* x_arr = x_arr[np.isfinite(x_arr)]: the finite values, in their order
FiniteValues(xs) ==
    LET kept == SelectSeq(xs, LAMBDA e : e.fin)
    IN  [i \in 1..Len(kept) |-> kept[i].val]

min_size == 3

\* (mutation of max_size: the table length plus min_size, without the - 1)
max_size_OffByOne(conf) == Len(q_dicts(conf)) + min_size

max_size(conf) == Len(q_dicts(conf)) + min_size - 1

MsgTooSmall == "Sample size too small: at least 3 data points are required"
MsgTooLarge == "Sample size too large"
MsgNoSide == "At least one of the two options, left or right, must be True."

\* s[i] for a Python list s and an index i >= 0; an IndexError past the end
InRange(s, i) == 0 <= i /\ i < Len(s)
GetItem(s, i) == s[i + 1]

\* sorted(): insertion of the values one after the other
RECURSIVE Insert(_, _)
Insert(s, v) ==
    IF s = <<>> THEN <<v>>
    ELSE IF v <= Head(s) THEN <<v>> \o s
    ELSE <<Head(s)>> \o Insert(Tail(s), v)

\* (mutation of sorted: the values are left in the order given)
sorted_Unsorted(s) == s

RECURSIVE sorted(_)
sorted(s) == IF s = <<>> THEN <<>> ELSE Insert(sorted(Tail(s)), Head(s))

\* abs(a / b) of two floats as a fraction <<numerator, denominator>>;
\* b = 0 gives <<0, 0>> or <<1, 0>> (numpy's nan or inf, not an exception)
AbsQuotient(a, b) ==
    IF b = 0 THEN <<IF a = 0 THEN 0 ELSE 1, 0>>
    ELSE TrueDiv(Abs(a), Abs(b))

\* Q > q_crit for a fraction Q and a critical value in thousandths; a nan
\* compares False and an inf compares True
ExceedsCrit(Q, q_crit) ==
    IF Q[2] = 0 THEN Q[1] # 0 ELSE Q[1] * 1000 > q_crit * Q[2]

\* Q1 >= Q2 for two fractions
AtLeast(Q1, Q2) ==
    IF Q1[2] = 0 \/ Q2[2] = 0
    THEN Q1[1] # 0 /\ Q1[2] = 0 /\ (Q2[2] # 0 \/ Q2[1] # 0)
    ELSE Q1[1] * Q2[2] >= Q2[1] * Q1[2]

Some(v) == [tag |-> "float", val |-> v]

\* (mutation of ReportLow: the comparison with the other end is left out)
ReportLow_NoCompare(Q_min, Q_max, q_crit) == ExceedsCrit(Q_min, q_crit)

\* (mutation of ReportLow: the critical value must be reached, not exceeded,
\* and the other end strictly exceeded)
ReportLow_Strict(Q_min, Q_max, q_crit) ==
    ExceedsCrit(Q_min, q_crit) /\ ~AtLeast(Q_max, Q_min)

\* the conditions of the two list elements
ReportLow(Q_min, Q_max, q_crit) ==
    ExceedsCrit(Q_min, q_crit) /\ AtLeast(Q_min, Q_max)
ReportHigh(Q_min, Q_max, q_crit) ==
    ExceedsCrit(Q_max, q_crit) /\ AtLeast(Q_max, Q_min)

\* (mutation of RangeIsZero: the degenerate case is not singled out)
RangeIsZero_Never(x_range) == FALSE

RangeIsZero(x_range) == x_range = 0

\* lines 376-386: the outliers list of a sample of accepted size, and the
\* divisors of the divisions carried out
Screen(x_arr, q_crit) ==
    LET x_sorted == sorted(x_arr)
        n == Len(x_sorted)
        x_range == x_sorted[n] - x_sorted[1]
        Q_min == AbsQuotient(x_sorted[2] - x_sorted[1], x_range)
        Q_max == AbsQuotient(x_sorted[n] - x_sorted[n - 1], x_range)
    IN  IF RangeIsZero(x_range)
        THEN [items |-> <<None, None>>, divisors |-> <<>>]
        ELSE [items |->
                <<IF ReportLow(Q_min, Q_max, q_crit)
                  THEN Some(x_sorted[1]) ELSE None,
                  IF ReportHigh(Q_min, Q_max, q_crit)
                  THEN Some(x_sorted[n]) ELSE None>>,
              divisors |-> <<x_range, x_range>>]

\* (mutation of SideMissing: the check of the two options is left out)
SideMissing_Unchecked(l, r) == FALSE

SideMissing(l, r) == ~(l \/ r)

NoReturn == [tag |-> "NoReturn"]
Raise(e, size) ==
    [ret |-> NoReturn, exc |-> e, size |-> size, q_index |-> -1,
     divisors |-> <<>>]

\* the whole function: the returned list or the exception raised, with the
\* sample size counted, the table index used and the divisors used
dixon_test(xs, l, r, conf) ==
    LET x_arr == FiniteValues(xs)
        size == Len(x_arr)
        q_index == size - 3
    IN  IF size < min_size THEN Raise(ValueError(MsgTooSmall), size)
        ELSE IF size > max_size(conf) THEN Raise(ValueError(MsgTooLarge), size)
        ELSE IF SideMissing(l, r) THEN Raise(ValueError(MsgNoSide), size)
        ELSE IF ~InRange(q_dicts(conf), q_index)
        THEN [Raise([type |-> "IndexError", msg |-> "list index out of range"],
                    size) EXCEPT !.q_index = q_index]
        ELSE LET s == Screen(x_arr, GetItem(q_dicts(conf), q_index))
             IN  [ret |-> [tag |-> "list", items |-> s.items],
                  exc |-> NoError, size |-> size, q_index |-> q_index,
                  divisors |-> s.divisors]

\* ---- the inputs

MidVal == MaxVal \div 2

\* the free values of a sample, in any order
Cores == UNION {[1..n -> {Float(v) : v \in 0..MaxVal}] : n \in 0..MaxCore}

\* a sample: free values, then non-finite values, then copies of MidVal
Sample(core, nf, pad) ==
    core \o [i \in 1..nf |-> IF i % 2 = 1 THEN NaN ELSE Inf]
         \o [i \in 1..pad |-> Float(MidVal)]

MaxPad == Len(q_dicts("q95")) + MaxExtra

ExampleSample ==
    <<Float(1), Float(2), Float(3), Float(4), Float(5), Float(100)>>

IsSample(xs) ==
    \/ \E core \in Cores, nf \in 0..MaxNonFinite, pad \in 0..MaxPad :
          xs = Sample(core, nf, pad)
    \/ xs = ExampleSample

\* ---- the specification

InitDixon ==
    /\ called = "init"
    /\ warnings = <<>>
    /\ raised = NoError
    /\ chamber_config = <<>> /\ doy = 0 /\ chamber_lookup_table = NotCalled
    /\ IsSample(x)
    /\ left \in BOOLEAN /\ right \in BOOLEAN /\ q_conf \in QConfs
    /\ outliers = NotCalled
    /\ dixon_locals = NotCalled
    /\ bounds = None /\ guess = None
    /\ time = <<>> /\ conc = <<>> /\ args = NotCalled
    /\ minimizer = NotCalled /\ timelag_results = NotCalled
    /\ lag_return = NotCalled
    /\ t_lag = 0 /\ MSR = NotEvaluated

\* a call dixon_test(x, left, right, q_conf)
CallDixon ==
    LET r == dixon_test(x, left, right, q_conf) IN
    /\ called = "init"
    /\ called' = "dixon_test"
    /\ outliers' = r.ret
    /\ raised' = r.exc
    /\ dixon_locals' =
          [tag |-> "locals", size |-> r.size, q_index |-> r.q_index,
           divisors |-> r.divisors]
    /\ UNCHANGED <<warnings, x, left, right, q_conf, lookupVars, lagVars>>

NextDixon == CallDixon

SpecDixon == InitDixon /\ [][NextDixon]_vars


\* ------------------------------------------------------ optimize_timelag

msg_warn_bounds ==
    "Illegal bounds given to timelag optimization! Default to unbounded optimization method."
msg_warn_guess == "Illegal timelag guess! Default to 0."

\* the bounds argument: None, a tuple of floats, or a float (not iterable)
BoundsTuple(items) == [tag |-> "tuple", items |-> items]
BoundsFloat == [tag |-> "float", items |-> <<>>]

\* the exception of `timelag_lolim, timelag_uplim = bounds`, "" for none
UnpackError(b) ==
    IF b.tag # "tuple" THEN "TypeError"
    ELSE IF Len(b.items) < 2
    THEN "ValueError: not enough values to unpack"
    ELSE IF Len(b.items) > 2
    THEN "ValueError: too many values to unpack"
    ELSE ""

isfinite(f) == f.fin

\* (mutation of LoBelowUp: equal limits pass)
LoBelowUp_OrEqual(timelag_lolim, timelag_uplim) ==
    timelag_lolim.val <= timelag_uplim.val

\* timelag_lolim < timelag_uplim, of two finite floats
LoBelowUp(timelag_lolim, timelag_uplim) ==
    timelag_lolim.val < timelag_uplim.val

\* lines 243-256: flag_bounded_optimization, the warnings emitted and the
\* exception that escapes
GetBounds(b) ==
    IF b = None
    THEN [flag |-> FALSE, warned |-> <<>>, exc |-> NoError]
    ELSE IF UnpackError(b) = "TypeError"
    THEN [flag |-> FALSE, warned |-> <<msg_warn_bounds>>, exc |-> NoError]
    ELSE IF UnpackError(b) # ""
    THEN [flag |-> FALSE, warned |-> <<>>,
          exc |-> ValueError(UnpackError(b))]
    ELSE IF isfinite(b.items[1]) /\ isfinite(b.items[2])
    THEN [flag |-> LoBelowUp(b.items[1], b.items[2]), warned |-> <<>>,
          exc |-> NoError]
    ELSE [flag |-> FALSE, warned |-> <<msg_warn_bounds>>, exc |-> NoError]

\* the guess argument: None, a float, a str that is no number, or a list
GuessFloat(f) == [tag |-> "float", fin |-> f.fin, val |-> f.val]
GuessStr == [tag |-> "str", fin |-> FALSE, val |-> 0]
GuessList == [tag |-> "list", fin |-> FALSE, val |-> 0]

\* lines 259-272: timelag_guess and the warnings emitted
GetGuess(g) ==
    IF g = None THEN [timelag_guess |-> 0, warned |-> <<>>]
    ELSE IF g.tag \in {"str", "list"}
    THEN [timelag_guess |-> 0, warned |-> <<msg_warn_guess>>]
    ELSE IF ~g.fin
    THEN [timelag_guess |-> 0, warned |-> <<msg_warn_guess>>]
    ELSE [timelag_guess |-> g.val, warned |-> <<>>]

\* lines 274-295: the scipy call made
MinimizerCall(b, g) ==
    IF GetBounds(b).flag
    THEN [tag |-> "minimize_scalar", method |-> "bounded",
          lower |-> b.items[1].val, upper |-> b.items[2].val, x0 |-> 0]
    ELSE [tag |-> "minimize", method |-> "Nelder-Mead",
          lower |-> 0, upper |-> 0, x0 |-> GetGuess(g).timelag_guess]

\* ---- _timelag_resid_func, the cost at a candidate lag
\*
\* time and conc are sequences of floats [fin, val]; times and the dt_*
\* arguments are whole seconds, so the windows are computed exactly. The
\* cost itself is kept as one of four classes, enough to tell a finite cost
\* from one that is not:
\*   "nan"        NaN
\*   "zero"       +-0.0, the nansum of an array with no finite entry
\*   "finite"     a finite quotient of a sum of squared residuals
\*   "inf or nan" a sum of squared residuals divided by zero

\* the indices i with lo <= time[i] < hi and time[i], conc[i] both finite
ind(tm, cn, lo, hi) ==
    {i \in 1..Len(tm) :
        /\ isfinite(tm[i]) /\ isfinite(cn[i])
        /\ tm[i].val >= lo /\ tm[i].val < hi}

ind_chb(tl, tm, cn, a) ==
    ind(tm, cn, tl + a.dt_left_margin,
        tl + a.dt_open_before - a.dt_right_margin)

ind_chc(tl, tm, cn, a) ==
    ind(tm, cn, tl + a.dt_open_before + a.dt_left_margin,
        tl + a.dt_open_before + a.dt_close - a.dt_right_margin)

ind_cha(tl, tm, cn, a) ==
    ind(tm, cn, tl + a.dt_open_before + a.dt_close + a.dt_left_margin,
        tl + a.dt_open_before + a.dt_close + a.dt_open_after
            - a.dt_right_margin)

\* the k-th smallest of the values v[i].val, i in S
KthSmallest(v, S, k) ==
    CHOOSE m \in {v[i].val : i \in S} :
        /\ Cardinality({i \in S : v[i].val < m}) < k
        /\ Cardinality({i \in S : v[i].val <= m}) >= k

\* np.nanmedian(v[S]), doubled, with S non-empty
nanmedian2(v, S) ==
    KthSmallest(v, S, (Cardinality(S) + 1) \div 2)
        + KthSmallest(v, S, (Cardinality(S) + 2) \div 2)

\* _k_bl, _b_bl and so every _conc_bl[i] with time[i] finite are finite:
\* np.nanmedian of an empty window is NaN, and the difference of the two
\* median times must not be zero
baseline_finite(tl, tm, cn, a) ==
    /\ ind_chb(tl, tm, cn, a) # {}
    /\ ind_cha(tl, tm, cn, a) # {}
    /\ nanmedian2(tm, ind_cha(tl, tm, cn, a))
           # nanmedian2(tm, ind_chb(tl, tm, cn, a))

\* _slope is finite: _y_obs is, and np.sum(_x_obs * _x_obs) is not zero
\* (_x_obs is 1 - exp(0) = 0 at time = t_lag + dt_open_before)
slope_finite(tl, tm, cn, a) ==
    /\ baseline_finite(tl, tm, cn, a)
    /\ \E i \in ind_chc(tl, tm, cn, a) : tm[i].val # tl + a.dt_open_before

\* the indices of the finite entries of resid_trunc
resid_trunc_finite(tl, tm, cn, a) ==
    {i \in 1..Len(tm) :
        /\ isfinite(tm[i]) /\ isfinite(cn[i])
        /\ tm[i].val <= tl + a.dt_open_before + a.dt_close
        /\ baseline_finite(tl, tm, cn, a)
        /\ \/ tm[i].val < tl + a.dt_open_before
           \/ slope_finite(tl, tm, cn, a)}

\* np.nansum of the squares of an array whose finite entries are at fin
nansum(fin) == IF fin = {} THEN "zero" ELSE "finite"

\* sum / den, of a nansum and a count less the degrees of freedom
MeanSquared(sum, den) ==
    IF den # 0 THEN sum
    ELSE IF sum = "zero" THEN "nan"
    ELSE "inf or nan"

\* lines 149-232: MSR, for t_turnover > 0
timelag_resid_func(tl, tm, cn, a) ==
    LET chc == ind_chc(tl, tm, cn, a) IN
    IF chc = {} THEN "nan"
    ELSE IF a.closure_period_only
    THEN MeanSquared(
             nansum(IF slope_finite(tl, tm, cn, a) THEN chc ELSE {}),
             Cardinality(chc) - 2)
    ELSE MeanSquared(
             nansum(resid_trunc_finite(tl, tm, cn, a)),
             Cardinality(resid_trunc_finite(tl, tm, cn, a)) - 3)

\* ---- the minimizers
\*
\* A lag is kept as the whole second it rounds up to: times and dt_* being
\* whole seconds, every lag in (k - 1, k] selects the same windows as k.

LagPoints == (0 - 1)..(MaxLag + 1)

\* the lags at which the cost is certainly evaluated: every point of
\* minimize_scalar lies strictly between the limits; the initial simplex of
\* Nelder-Mead is x0 and a point just above it
Evaluated(call) ==
    IF call.tag = "minimize_scalar"
    THEN (call.lower + 1)..call.upper
    ELSE {call.x0, call.x0 + 1}

\* the cost is NaN at every lag of Evaluated(call)
AllNaN(call, tm, cn, a) ==
    \A tl \in Evaluated(call) : timelag_resid_func(tl, tm, cn, a) = "nan"

\* the cost is NaN at some lag the method may evaluate
SomeNaN(call, tm, cn, a) ==
    \E tl \in (IF call.tag = "minimize_scalar"
               THEN (call.lower + 1)..call.upper ELSE LagPoints) :
        timelag_resid_func(tl, tm, cn, a) = "nan"

\* the termination status of minimize_scalar(method='bounded'):
\* 0 the interval is narrower than xatol, 1 maxiter function calls made,
\* 2 a NaN result (only in the scipy releases that test for it: with a cost
\* that is NaN everywhere the other releases end on the interval, status 0)
BoundedStatus(call, tm, cn, a) ==
    IF AllNaN(call, tm, cn, a) THEN {0, 2}
    ELSE IF SomeNaN(call, tm, cn, a) THEN {0, 1, 2}
    ELSE {0, 1}

\* the termination status of minimize(method='Nelder-Mead') with the
\* default maxiter = maxfev = 200: 0 both tolerances met, 1 maxfev calls
\* made (every iteration calls the cost, so maxfev is hit no later than
\* maxiter and status 2 is never returned). With a simplex of NaN costs
\* no comparison holds, the simplex only shrinks and fatol is never met.
NelderMeadStatus(call, tm, cn, a) ==
    IF AllNaN(call, tm, cn, a) THEN {1} ELSE {0, 1}

\* what the scipy call can return: a point (within the limits, for the
\* bounded method) and the termination status of the method
OptimizeResults(call, tm, cn, a) ==
    IF call.tag = "minimize_scalar"
    THEN [tag : {"OptimizeResult"}, x : call.lower..call.upper,
          status : BoundedStatus(call, tm, cn, a)]
    ELSE [tag : {"OptimizeResult"},
          x : IF AllNaN(call, tm, cn, a) THEN {call.x0} ELSE LagPoints,
          status : NelderMeadStatus(call, tm, cn, a)]

\* OptimizeResult.success
success(res) == res.status = 0

\* (mutation of StatusTimelag: the status of the bounded method is returned
\* as it is)
StatusTimelag_RawStatus(call, res) == res.status

\* lines 284-285 and 296-297: status_timelag
StatusTimelag(call, res) ==
    IF call.tag = "minimize_scalar"
    THEN IF success(res) THEN 0 ELSE 1
    ELSE res.status

\* ---- the inputs

LagFloats == {Float(v) : v \in 0..MaxLag} \cup {NaN, Inf}

BoundsInputs ==
    {None, BoundsFloat}
        \cup {BoundsTuple(t) : t \in UNION {[1..n -> LagFloats] : n \in 0..3}}

GuessInputs ==
    {None, GuessStr, GuessList} \cup {GuessFloat(f) : f \in LagFloats}

\* a trace sampled every second from time 0
Times(n) == [i \in 1..n |-> Float(i - 1)]

\* the concentrations of a trace: every point a number or NaN
Concs(n) == [1..n -> {Float(1), NaN}]

\* the concentrations of a trace of which the first k points are numbers
\* and the rest is missing
ConcPrefix(n, k) == [i \in 1..n |-> IF i <= k THEN Float(1) ELSE NaN]

\* the arguments passed on to the cost function
Args(ob, cl, oa, lm, cpo) ==
    [t_turnover |-> 1, dt_open_before |-> ob, dt_close |-> cl,
     dt_open_after |-> oa, dt_left_margin |-> lm, dt_right_margin |-> 0,
     closure_period_only |-> cpo]

ArgsInputs ==
    {Args(ob, cl, oa, lm, cpo) :
        ob \in 0..1, cl \in 1..2, oa \in 0..1, lm \in 0..1, cpo \in BOOLEAN}

\* ---- the specification of optimize_timelag

InitLag ==
    /\ called = "init"
    /\ warnings = <<>>
    /\ raised = NoError
    /\ chamber_config = <<>> /\ doy = 0 /\ chamber_lookup_table = NotCalled
    /\ x = <<>> /\ left = TRUE /\ right = TRUE /\ q_conf = "q95"
    /\ outliers = NotCalled /\ dixon_locals = NotCalled
    /\ bounds \in BoundsInputs
    /\ guess \in GuessInputs
    /\ time = Times(MaxTime)
    /\ \E k \in 0..MaxTime : conc = ConcPrefix(MaxTime, k)
    /\ \E cpo \in BOOLEAN : args = Args(1, 1, 1, 0, cpo)
    /\ minimizer = NotCalled /\ timelag_results = NotCalled
    /\ lag_return = NotCalled
    /\ t_lag = 0 /\ MSR = NotEvaluated

\* a call optimize_timelag(..., bounds=bounds, guess=guess) in which the
\* unpacking of bounds raises
CallOptimizeTimelagRaises ==
    /\ called = "init"
    /\ GetBounds(bounds).exc # NoError
    /\ called' = "optimize_timelag"
    /\ raised' = GetBounds(bounds).exc
    /\ warnings' = GetBounds(bounds).warned
    /\ lag_return' = NoReturn
    /\ UNCHANGED <<bounds, guess, traceVars, minimizer, timelag_results,
                   costVars, lookupVars, dixonVars>>

\* a call optimize_timelag(..., bounds=bounds, guess=guess) that returns
CallOptimizeTimelag ==
    /\ called = "init"
    /\ GetBounds(bounds).exc = NoError
    /\ \E res \in OptimizeResults(MinimizerCall(bounds, guess),
                                 time, conc, args) :
          /\ called' = "optimize_timelag"
          /\ raised' = NoError
          /\ warnings' = GetBounds(bounds).warned \o GetGuess(guess).warned
          /\ minimizer' = MinimizerCall(bounds, guess)
          /\ timelag_results' = res
          /\ lag_return' =
                [tag |-> "tuple", timelag |-> res.x,
                 status_timelag |->
                     StatusTimelag(MinimizerCall(bounds, guess), res)]
    /\ UNCHANGED <<bounds, guess, traceVars, costVars, lookupVars, dixonVars>>

NextLag == CallOptimizeTimelagRaises \/ CallOptimizeTimelag

SpecLag == InitLag /\ [][NextLag]_vars

\* ---- the specification of _timelag_resid_func

InitCost ==
    /\ called = "init"
    /\ warnings = <<>>
    /\ raised = NoError
    /\ chamber_config = <<>> /\ doy = 0 /\ chamber_lookup_table = NotCalled
    /\ x = <<>> /\ left = TRUE /\ right = TRUE /\ q_conf = "q95"
    /\ outliers = NotCalled /\ dixon_locals = NotCalled
    /\ bounds = None /\ guess = None
    /\ \E n \in 0..MaxTime : time = Times(n) /\ conc \in Concs(n)
    /\ args \in ArgsInputs
    /\ minimizer = NotCalled /\ timelag_results = NotCalled
    /\ lag_return = NotCalled
    /\ t_lag \in LagPoints
    /\ MSR = NotEvaluated

\* a call _timelag_resid_func(t_lag, time, conc, *args)
CallTimelagResidFunc ==
    /\ called = "init"
    /\ called' = "_timelag_resid_func"
    /\ MSR' = timelag_resid_func(t_lag, time, conc, args)
    /\ UNCHANGED <<warnings, raised, bounds, guess, traceVars, minimizer,
                   timelag_results, lag_return, t_lag, lookupVars, dixonVars>>

NextCost == CallTimelagResidFunc

SpecCost == InitCost /\ [][NextCost]_vars

\* ---- claims on chamber_lookup_table_func

LookupDone == called = "chamber_lookup_table_func"

\* the half-open interval start <= day < end of a definition
Contains(def, d) ==
    SchDoy(def.schedule_start) <= d /\ d < SchDoy(def.schedule_end)

Matching == {i \in 1..Len(chamber_config) : Contains(chamber_config[i], doy)}

\* the returned value was resolved from the i-th definition
ResolvedFrom(i) ==
    /\ chamber_lookup_table.tag = "ChamberLookupTableResult"
    /\ chamber_lookup_table.schedule_start = chamber_config[i].schedule_start
    /\ chamber_lookup_table.schedule_end = chamber_config[i].schedule_end
    /\ chamber_lookup_table.n_cycle_per_day = chamber_config[i].n_cycle_per_day
    /\ chamber_lookup_table.df.flowmeter_no = chamber_config[i].flowmeter_no

\* C1: the value returned for a day is resolved from the first definition,
\* in the order of the configuration, whose interval start <= doy < end
\* holds the day: a definition is returned only if no earlier definition
\* holds the day, and when exactly one definition holds the day it is that
\* one.
C1_FirstMatchReturned ==
    LookupDone =>
        /\ \A i \in Matching :
              (\A j \in Matching : i <= j) => ResolvedFrom(i)
        /\ \A i \in 1..Len(chamber_config) :
              ResolvedFrom(i) =>
                  /\ Contains(chamber_config[i], doy)
                  /\ \A j \in 1..(i - 1) : ~Contains(chamber_config[j], doy)
        /\ \A i \in Matching : Matching = {i} => ResolvedFrom(i)

\* two overlapping definitions hold the queried day, which is the start of
\* the first of them, and that first one is returned
C1_Witness ==
    /\ LookupDone
    /\ \E i, j \in Matching :
          /\ i < j
          /\ doy = SchDoy(chamber_config[i].schedule_start)
          /\ ResolvedFrom(i)

\* the divisor the unit of time stands for
DayDivisor(unit) ==
    CASE unit \in {"second", "sec", "s"} -> 86400
      [] unit \in {"minute", "min", "m"} -> 1440
      [] unit \in {"hour", "hr", "h"} -> 24
      [] OTHER -> 1

\* the fraction q is the value v divided by f
IsQuotient(q, v, f) == q[2] > 0 /\ q[1] * f = v * q[2]

TimeColumns ==
    {"ch_start", "ch_o_b", "ch_cls", "ch_o_a", "ch_end", "ch_atm_a",
     "timelag_nominal", "timelag_upper_limit", "timelag_lower_limit"}

FirstOfMatching == CHOOSE i \in Matching : \A j \in Matching : i <= j

\* C2: on a match, smpl_cycle_len and the nine time columns of the returned
\* value are those of the matched definition divided by the one divisor its
\* unit_of_time stands for (86400, 1440, 24, or 1 for any other unit), and
\* schedule_start, schedule_end, n_ch, n_cycle_per_day and every other
\* column are those of the matched definition.
C2_TimeFieldsDivided ==
    (LookupDone /\ Matching # {}) =>
        LET cs == chamber_config[FirstOfMatching]
            r == chamber_lookup_table
            f == DayDivisor(cs.unit_of_time)
        IN  /\ r.tag = "ChamberLookupTableResult"
            /\ raised = NoError
            /\ IsQuotient(r.smpl_cycle_len, cs.smpl_cycle_len, f)
            /\ \A key \in TimeColumns :
                  /\ DOMAIN r.df[key] = DOMAIN cs[key]
                  /\ \A i \in DOMAIN cs[key] :
                        IsQuotient(r.df[key][i], cs[key][i], f)
            /\ r.schedule_start = cs.schedule_start
            /\ r.schedule_end = cs.schedule_end
            /\ r.n_ch = cs.n_ch
            /\ r.n_cycle_per_day = cs.n_cycle_per_day
            /\ \A key \in DfKeys \ TimeColumns : r.df[key] = cs[key]

\* a schedule in minutes (and not the first of the configuration) matched
C2_Witness ==
    /\ LookupDone
    /\ Matching # {}
    /\ FirstOfMatching > 1
    /\ chamber_lookup_table.tag = "ChamberLookupTableResult"
    /\ chamber_lookup_table.unit_of_time = "min"
    /\ chamber_lookup_table.smpl_cycle_len = <<1, 8>>

\* C3: when no definition holds the queried day, the call emits exactly one
\* warning, returns None and raises nothing; and a returned schedule always
\* holds the queried day.
C3_NoMatchWarnsAndReturnsNone ==
    LookupDone =>
        /\ Matching = {} =>
              /\ chamber_lookup_table = None
              /\ warnings = <<MsgNoSchedule>>
              /\ raised = NoError
        /\ chamber_lookup_table.tag = "ChamberLookupTableResult" =>
              \E i \in Matching : ResolvedFrom(i)

\* a configuration with definitions, none of which holds the queried day,
\* which is the end of one of them
C3_Witness ==
    /\ LookupDone
    /\ Len(chamber_config) > 0
    /\ Matching = {}
    /\ \E i \in 1..Len(chamber_config) :
          /\ doy = SchDoy(chamber_config[i].schedule_end)
          /\ SchDoy(chamber_config[i].schedule_start) < doy
    /\ chamber_lookup_table = None

\* the empty configuration was queried
C3_WitnessEmpty ==
    LookupDone /\ Len(chamber_config) = 0 /\ chamber_lookup_table = None

DixonDone == called = "dixon_test"
Returned == DixonDone /\ outliers.tag = "list"

\* the finite values of the sample, by position
FinitePos == {i \in 1..Len(x) : x[i].fin}
Count == Cardinality(FinitePos)
Values == {x[i].val : i \in FinitePos}
Copies(v) == Cardinality({i \in FinitePos : x[i].val = v})

Lowest == CHOOSE v \in Values : \A w \in Values : v <= w
Highest == CHOOSE v \in Values : \A w \in Values : w <= v
SecondLowest ==
    IF Copies(Lowest) >= 2 THEN Lowest
    ELSE CHOOSE v \in Values \ {Lowest} : \A w \in Values \ {Lowest} : v <= w
SecondHighest ==
    IF Copies(Highest) >= 2 THEN Highest
    ELSE CHOOSE v \in Values \ {Highest} : \A w \in Values \ {Highest} : w <= v

Range == Highest - Lowest
GapLow == SecondLowest - Lowest
GapHigh == Highest - SecondHighest

\* the critical value of the sample size at the chosen confidence level
Crit == q_dicts(q_conf)[Count - 2]

\* Q_min > critical value and Q_max > critical value, for Range > 0
LowExceeds == GapLow * 1000 > Crit * Range
HighExceeds == GapHigh * 1000 > Crit * Range

Low == outliers.items[1]
High == outliers.items[2]

\* C4 (as claimed): the minimum and the maximum are never both reported.
C4_NeverBothReported ==
    Returned => ~(Low # None /\ High # None)

\* C4 (amended): the minimum and the maximum are both reported exactly when
\* Q_min and Q_max are equal and exceed the critical value; whenever Q_min
\* and Q_max differ, at most one of the two positions is not None.
C4_BothReportedOnlyOnTie ==
    Returned =>
        ((Low # None /\ High # None)
            <=> (Range # 0 /\ GapLow = GapHigh /\ LowExceeds /\ HighExceeds))

\* both ends exceed the critical value, Q_min < Q_max, and only the
\* maximum is reported
C4_Witness ==
    /\ Returned
    /\ Range # 0
    /\ LowExceeds /\ HighExceeds
    /\ GapLow < GapHigh
    /\ Low = None /\ High = Some(Highest)

\* C5: for a sample of accepted size and non-zero range, the sorted minimum
\* is reported as the low outlier exactly when Q_min exceeds the critical
\* value at index n-3 and Q_min >= Q_max, and the sorted maximum as the high
\* outlier exactly when Q_max exceeds it and Q_max >= Q_min; nothing else is
\* ever reported; [1,2,3,4,5,100] at q95 gives [None, 100].
C5_ReportedExactlyWhenExceeding ==
    (Returned /\ Range # 0) =>
        /\ Low = (IF LowExceeds /\ GapLow >= GapHigh
                  THEN Some(Lowest) ELSE None)
        /\ High = (IF HighExceeds /\ GapHigh >= GapLow
                   THEN Some(Highest) ELSE None)
        /\ (x = ExampleSample /\ q_conf = "q95") =>
              (Low = None /\ High = Some(100))

\* the example of the claim: [1,2,3,4,5,100] at q95, both ends tested
C5_Witness ==
    /\ Returned
    /\ x = ExampleSample /\ q_conf = "q95" /\ left /\ right
    /\ outliers.items = <<None, Some(100)>>

\* an unsorted sample whose minimum is reported and whose maximum is not
C5_WitnessLow ==
    /\ Returned
    /\ x[1].fin /\ x[1].val = Highest
    /\ Low = Some(Lowest) /\ High = None

\* C6 (as claimed): with left False the first element of the result is None
\* and with right False the second element is None.
C6_UntestedSideIsNone ==
    Returned =>
        /\ ~left => Low = None
        /\ ~right => High = None

\* C7: the size counted is the number of finite values; the call fails with
\* the size error exactly when that count is below 3 or above 30, at every
\* confidence level, and for a count from 3 to 30 the index count-3 lies
\* within the table.
C7_SizeErrorOutside3To30 ==
    DixonDone =>
        /\ dixon_locals.size = Count
        /\ Count < 3 => (raised = ValueError(MsgTooSmall) /\ outliers = NoReturn)
        /\ Count > 30 => (raised = ValueError(MsgTooLarge) /\ outliers = NoReturn)
        /\ (Count >= 3 /\ Count <= 30) =>
              /\ raised \notin {ValueError(MsgTooSmall), ValueError(MsgTooLarge)}
              /\ raised.type # "IndexError"
              /\ Count - 3 >= 0 /\ Count - 3 < Len(q_dicts(q_conf))
              /\ Returned => dixon_locals.q_index = Count - 3

\* a sample of three values, one of them non-finite, is too small
C7_Witness ==
    /\ DixonDone
    /\ Len(x) = 3 /\ Count = 2
    /\ raised = ValueError(MsgTooSmall)

\* thirty-one finite values are too large for the table
C7_WitnessLarge ==
    DixonDone /\ Count = 31 /\ raised = ValueError(MsgTooLarge)

\* thirty finite values are accepted and use the last entry of the table
C7_WitnessLast ==
    Returned /\ Count = 30 /\ dixon_locals.q_index = 27

\* C8: with left and right both False the call raises a ValueError and
\* returns nothing; for a sample of accepted size it is the error about
\* the two options.
C8_NoSideIsAnError ==
    (DixonDone /\ ~left /\ ~right) =>
        /\ raised.type = "ValueError"
        /\ outliers = NoReturn
        /\ (Count >= 3 /\ Count <= 30) => raised = ValueError(MsgNoSide)

\* a sample of accepted size and non-zero range, neither end tested
C8_Witness ==
    /\ DixonDone /\ ~left /\ ~right
    /\ Count >= 3 /\ Count <= 30 /\ Range # 0
    /\ raised = ValueError(MsgNoSide)

\* C9: a sample of accepted size whose finite values are all equal gives
\* [None, None] at each confidence level, and no division by the zero range
\* is carried out.
C9_ZeroRangeReportsNothing ==
    (DixonDone /\ Count >= 3 /\ Count <= 30 /\ (left \/ right)
        /\ Cardinality(Values) = 1) =>
        /\ raised = NoError
        /\ Returned
        /\ outliers.items = <<None, None>>
        /\ \A i \in DOMAIN dixon_locals.divisors : dixon_locals.divisors[i] # 0

\* equal values (and a non-finite one that is dropped) at q99
C9_Witness ==
    /\ Returned
    /\ q_conf = "q99"
    /\ Len(x) > Count /\ Count >= 3
    /\ Cardinality(Values) = 1
    /\ outliers.items = <<None, None>>

\* ---- claims on optimize_timelag

LagDone == called = "optimize_timelag"

IsPair == bounds # None /\ bounds.tag = "tuple" /\ Len(bounds.items) = 2

\* bounds is a pair of finite values, the lower strictly below the upper
LegalPair ==
    /\ IsPair
    /\ bounds.items[1].fin /\ bounds.items[2].fin
    /\ bounds.items[1].val < bounds.items[2].val

\* the seed of the unbounded search: the guess, or 0 without a usable guess
Seed ==
    IF guess # None /\ guess.tag = "float" /\ guess.fin THEN guess.val ELSE 0

\* C10: the bounded minimizer is used, restricted to [lower, upper], exactly
\* when bounds is a pair of finite values with lower < upper; when bounds is
\* absent, or a pair with a non-finite value, or a pair with lower >= upper,
\* the Nelder-Mead search is used, seeded at the guess.
C10_BoundedExactlyOnLegalPair ==
    LagDone =>
        /\ (minimizer # NotCalled /\ minimizer.tag = "minimize_scalar")
              <=> LegalPair
        /\ LegalPair =>
              /\ minimizer.method = "bounded"
              /\ minimizer.lower = bounds.items[1].val
              /\ minimizer.upper = bounds.items[2].val
              /\ timelag_results.x >= minimizer.lower
              /\ timelag_results.x <= minimizer.upper
        /\ ((bounds = None \/ IsPair) /\ ~LegalPair) =>
              /\ minimizer # NotCalled
              /\ minimizer.tag = "minimize"
              /\ minimizer.method = "Nelder-Mead"
              /\ minimizer.x0 = Seed

\* a pair of equal finite limits, and a guess: the unbounded search is
\* seeded at the guess
C10_Witness ==
    /\ LagDone
    /\ IsPair
    /\ bounds.items[1].fin /\ bounds.items[2].fin
    /\ bounds.items[1].val = bounds.items[2].val
    /\ guess # None /\ guess.tag = "float" /\ guess.fin /\ guess.val = 1
    /\ minimizer.tag = "minimize" /\ minimizer.x0 = 1

\* a legal pair: the bounded minimizer is used
C10_WitnessBounded ==
    /\ LagDone /\ LegalPair
    /\ minimizer.tag = "minimize_scalar"
    /\ minimizer.lower = 0 /\ minimizer.upper = 2

\* bounds is supplied and is not a legal pair: not a 2-tuple, a pair with a
\* non-finite value, or a pair of finite values with lower >= upper
Malformed == bounds # None /\ ~LegalPair

\* C11 (as claimed): with malformed bounds the call raises nothing, emits
\* the illegal-bounds warning and goes on with the unbounded search.
C11_MalformedBoundsWarnAndFallBack ==
    (LagDone /\ Malformed) =>
        /\ raised = NoError
        /\ \E i \in DOMAIN warnings : warnings[i] = msg_warn_bounds
        /\ minimizer # NotCalled
        /\ minimizer.tag = "minimize"

\* the call returned a (timelag, status_timelag) tuple
LagReturned == LagDone /\ lag_return # NoReturn /\ lag_return # NotCalled

\* the closure window holds no finite point at any lag the minimizer
\* evaluates for certain
ClosureEmpty ==
    \A tl \in Evaluated(minimizer) : ind_chc(tl, time, conc, args) = {}

C13_StatusIsSuccessOrFailure ==
    (LagDone /\ minimizer # NotCalled) =>
        /\ raised = NoError
        /\ lag_return # NoReturn
        /\ lag_return.status_timelag \in {0, 1}
        /\ lag_return.status_timelag = 0 <=> success(timelag_results)

\* the bounded method ended on a NaN result (status 2) and 1 was returned
C13_Witness ==
    /\ LagReturned
    /\ minimizer.tag = "minimize_scalar"
    /\ timelag_results.status = 2
    /\ lag_return.status_timelag = 1

\* Nelder-Mead ran out of function calls and 1 was returned
C13_WitnessUnbounded ==
    /\ LagReturned
    /\ minimizer.tag = "minimize"
    /\ timelag_results.status = 1
    /\ lag_return.status_timelag = 1

\* ---- claims on _timelag_resid_func

CostDone == called = "_timelag_resid_func"

\* the cost returned is a finite number
CostFinite == MSR \in {"zero", "finite"}

\* C15 (as claimed): the cost is finite only when the baseline is defined,
\* and it is NaN when the window before or after the closure is empty while
\* the closure window is not, whatever closure_period_only is.
C15_NoBaselineGivesNaN ==
    CostDone =>
        /\ CostFinite => baseline_finite(t_lag, time, conc, args)
        /\ (/\ ind_chc(t_lag, time, conc, args) # {}
            /\ \/ ind_chb(t_lag, time, conc, args) = {}
               \/ ind_cha(t_lag, time, conc, args) = {})
              => MSR = "nan"

====
